---- MODULE Spec2Model ----
(***************************************************************************)
(* A model of the signal-graph synthesizer of leszek-bin: the Signal trait *)
(* (sample / clone_box), the generators of src/src/signals.rs and the      *)
(* melody builder and render loop of src/src/main.rs.                      *)
(*                                                                         *)
(* Every f32 of the program is modelled as an IEEE-754 binary32 value with *)
(* round-to-nearest-even arithmetic.  A finite value is the pair <<m, e>>  *)
(* standing for m * 2^e with 2^23 <= |m| < 2^24 (zero is <<0, 0>>); NaN is *)
(* <<0, 1>>.  Subnormals, infinities and the sign of zero are not          *)
(* represented: no operation of the model leaves the normal range.         *)
(***************************************************************************)
EXTENDS Integers, Sequences, FiniteSets, TLC

VARIABLES heap, roots, last, hist, frame, melody

vars == <<heap, roots, last, hist, frame, melody>>

(***************************************************************************)
(* binary32 arithmetic                                                     *)
(***************************************************************************)
Pow2(n) == IF n <= 0 THEN 1 ELSE 2 ^ n

\* the number of bits of x, 0 <= x < 2^31
BitLen(x) ==
    CHOOSE n \in 0..31 : (n = 0 \/ x >= Pow2(n - 1)) /\ (n = 31 \/ x < Pow2(n))

Abs(x) == IF x < 0 THEN -x ELSE x

Sgn(x) == IF x < 0 THEN -1 ELSE IF x = 0 THEN 0 ELSE 1

Zero == <<0, 0>>

NaN == <<0, 1>>

IsNaN(x) == x = NaN

\* the sign s and the 24-bit magnitude q of a rounded result, renormalised
\* when rounding up carried into a 25th bit
Renorm(s, q, e) ==
    IF q = 16777216 THEN <<s * 8388608, e + 1>> ELSE <<s * q, e>>

\* round to nearest, ties to even: q is the kept part, r the dropped part
RoundCut(s, q, r, half, e) ==
    Renorm(s, IF r > half \/ (r = half /\ q % 2 = 1) THEN q + 1 ELSE q, e)

RoundBits(s, a, n, e) ==
    IF n <= 24
    THEN <<s * a * Pow2(24 - n), e - (24 - n)>>
    ELSE RoundCut(s, a \div Pow2(n - 24), a % Pow2(n - 24), Pow2(n - 25),
                  e + (n - 24))

\* M * 2^e rounded to 24 significant bits.  A sticky bit may have been or-ed
\* into the lowest bit of M when at least two bits are dropped.
F32Round(M, e) ==
    IF M = 0 THEN Zero ELSE RoundBits(Sgn(M), Abs(M), BitLen(Abs(M)), e)

\* an integer (usize, u32 or a small literal) as f32
F32FromInt(i) == F32Round(i, 0)

Sticky(q, lost) == IF lost /\ q % 2 = 0 THEN q + 1 ELSE q

F32Neg(x) == IF IsNaN(x) THEN NaN ELSE <<-x[1], x[2]>>

F32Add(x, y) ==
    IF IsNaN(x) \/ IsNaN(y) THEN NaN
    ELSE IF x[1] = 0 THEN y
    ELSE IF y[1] = 0 THEN x
    ELSE LET big   == IF x[2] >= y[2] THEN x ELSE y
             small == IF x[2] >= y[2] THEN y ELSE x
             d     == big[2] - small[2]
             Mb    == big[1] * 64
             sh    == IF d - 6 > 25 THEN 25 ELSE d - 6
             Ms    == IF d <= 6
                      THEN small[1] * Pow2(6 - d)
                      ELSE Sgn(small[1]) *
                           Sticky(Abs(small[1]) \div Pow2(sh),
                                  Abs(small[1]) % Pow2(sh) # 0)
         IN  F32Round(Mb + Ms, big[2] - 6)

F32Sub(x, y) == F32Add(x, F32Neg(y))

\* the product H * 2^24 + Lo of two 24-bit magnitudes (2^22 <= H < 2^24),
\* rounded
MulRound(s, H, Lo, e) ==
    IF H >= 8388608
    THEN RoundCut(s, H, Lo, 8388608, e + 24)
    ELSE RoundCut(s, 2 * H + Lo \div 8388608, Lo % 8388608, 4194304, e + 23)

\* the partial products of the 12-bit halves: hh * 2^24 + mid * 2^12 + ll
MulParts(s, hh, mid, ll, e) ==
    MulRound(s, hh + mid \div 4096 + (ll + (mid % 4096) * 4096) \div 16777216,
             (ll + (mid % 4096) * 4096) % 16777216, e)

MulMagnitudes(s, a, b, e) ==
    MulParts(s, (a \div 4096) * (b \div 4096),
             (a \div 4096) * (b % 4096) + (a % 4096) * (b \div 4096),
             (a % 4096) * (b % 4096), e)

F32Mul(x, y) ==
    IF IsNaN(x) \/ IsNaN(y) THEN NaN
    ELSE IF x[1] = 0 \/ y[1] = 0 THEN Zero
    ELSE MulMagnitudes(Sgn(x[1]) * Sgn(y[1]), Abs(x[1]), Abs(y[1]), x[2] + y[2])

\* long division: extend the quotient q (remainder r < d <= 2^24) of a
\* division by d, at most DivChunk bits at a time, until it has 26 bits
DivChunk(q) == IF 26 - BitLen(q) < 7 THEN 26 - BitLen(q) ELSE 7

RECURSIVE DivLoop(_, _, _, _)
DivExtend(q, r, d, e, k) ==
    DivLoop(q * Pow2(k) + (r * Pow2(k)) \div d, (r * Pow2(k)) % d, d, e - k)

DivLoop(q, r, d, e) ==
    IF BitLen(q) >= 26 THEN F32Round(Sticky(q, r # 0), e)
    ELSE DivExtend(q, r, d, e, DivChunk(q))

Scaled(s, v, e) == <<s * v[1], v[2] + e>>

\* the f32 nearest to n / d for integers n and d > 0: what a decimal literal
\* such as 0.01 (= 1 / 100) denotes
F32(n, d) ==
    IF n = 0 THEN Zero
    ELSE Scaled(Sgn(n), DivLoop(Abs(n) \div d, Abs(n) % d, d, 0), 0)

F32Div(x, y) ==
    IF IsNaN(x) \/ IsNaN(y) \/ y[1] = 0 THEN NaN
    ELSE IF x[1] = 0 THEN Zero
    ELSE Scaled(Sgn(x[1]) * Sgn(y[1]),
                DivLoop(Abs(x[1]) \div Abs(y[1]), Abs(x[1]) % Abs(y[1]),
                        Abs(y[1]), 0),
                x[2] - y[2])

F32Lt(x, y) ==
    /\ ~IsNaN(x)
    /\ ~IsNaN(y)
    /\ LET sx == Sgn(x[1])
           sy == Sgn(y[1])
       IN  IF sx # sy THEN sx < sy
           ELSE IF sx = 0 THEN FALSE
           ELSE IF sx > 0 THEN x[2] < y[2] \/ (x[2] = y[2] /\ x[1] < y[1])
           ELSE x[2] > y[2] \/ (x[2] = y[2] /\ x[1] < y[1])

F32Le(x, y) == ~IsNaN(x) /\ ~IsNaN(y) /\ (x = y \/ F32Lt(x, y))

F32Gt(x, y) == F32Lt(y, x)

F32Ge(x, y) == F32Le(y, x)

\* f32::max: the other operand when one is NaN
F32Max(x, y) ==
    IF IsNaN(x) THEN y ELSE IF IsNaN(y) THEN x ELSE IF F32Lt(x, y) THEN y ELSE x

RECURSIVE RemLoop(_, _, _)
RemLoop(r, m, n) == IF n = 0 THEN r ELSE RemLoop((2 * r) % m, m, n - 1)

\* the % of f32: exact, with the sign of the dividend; NaN for a zero divisor
F32Rem(x, y) ==
    IF IsNaN(x) \/ IsNaN(y) \/ y[1] = 0 THEN NaN
    ELSE IF x[1] = 0 THEN Zero
    ELSE IF x[2] < y[2] \/ (x[2] = y[2] /\ Abs(x[1]) < Abs(y[1])) THEN x
    ELSE F32Round(Sgn(x[1]) * RemLoop(Abs(x[1]) % Abs(y[1]), Abs(y[1]), x[2] - y[2]),
                  y[2])

(***************************************************************************)
(* Program constants (signals.rs 5-7) and cosine.  f32::cos is a library   *)
(* function; it is modelled by Bhaskara's rational approximant evaluated   *)
(* in f32, which is exact at 0, TAU/4, TAU/2 and 3*TAU/4: cos(0) is 1.     *)
(***************************************************************************)
TAU == F32(62831855, 10000000)

SAMPLE_RATE == F32FromInt(44100)

SAMPLE_PERIOD == F32Div(F32FromInt(1), SAMPLE_RATE)

One == F32FromInt(1)

HALF_TAU == F32Div(TAU, F32FromInt(2))

QUARTER_TAU == F32Div(TAU, F32FromInt(4))

BhaskaraRatio(pi2, y2) ==
    F32Div(F32Sub(pi2, F32Mul(F32FromInt(4), y2)), F32Add(pi2, y2))

\* cos y for -TAU/4 <= y <= TAU/4
Bhaskara(y) == BhaskaraRatio(F32Mul(HALF_TAU, HALF_TAU), F32Mul(y, y))

\* cos a for 0 <= a < TAU
CosReduced(a) ==
    IF F32Le(a, QUARTER_TAU) THEN Bhaskara(a)
    ELSE IF F32Le(a, F32Mul(F32FromInt(3), QUARTER_TAU))
    THEN F32Neg(Bhaskara(F32Sub(a, HALF_TAU)))
    ELSE Bhaskara(F32Sub(a, TAU))

F32Cos(x) ==
    IF IsNaN(x) THEN NaN ELSE CosReduced(F32Rem(<<Abs(x[1]), x[2]>>, TAU))

(***************************************************************************)
(* The signal graph.  Every Box<dyn Signal> is a cell of `heap`, named by  *)
(* its index; a composite node holds the indices of the children it owns.  *)
(* Ch32 is a newtype of f32 (Ch32::from and to_f32 change no value).       *)
(***************************************************************************)
Alloc(h, node) == [heap |-> Append(h, node), id |-> Len(h) + 1]

Const_new(value) == [kind |-> "Const", value |-> value]

Sine_new(freq) == [kind |-> "Sine", freq |-> freq, state |-> Zero]

Gain_new(signal, gain) == [kind |-> "Gain", signal |-> signal, gain |-> gain]

Sum_new(a, b) == [kind |-> "Sum", a |-> a, b |-> b]

Adsr_new(gate, input) ==
    [kind |-> "Adsr", state |-> "Idle", gate |-> gate, input |-> input,
     peak_level |-> F32(1, 1), attack |-> F32(1, 100), decay |-> F32(3, 10),
     sustain_level |-> F32(1, 2), release |-> F32(1, 100),
     beg_value |-> Zero, value |-> Zero, gate_last |-> FALSE]

\* the recording is what the WAV reader decoded: a sequence of amplitudes
Sample_new(samples, gate) ==
    [kind |-> "Sample", gate |-> gate, samples |-> samples, index |-> 0]

Every_new(period, duration) ==
    [kind |-> "Every", period |-> period, duration |-> duration]

\* steps.iter().map(|(_, dur)| *dur).sum(): a left fold from 0.0
RECURSIVE SumDurations(_, _)
SumDurations(steps, n) ==
    IF n = 0 THEN Zero ELSE F32Add(SumDurations(steps, n - 1), steps[n][2])

StepSignal_new(steps) ==
    [kind |-> "StepSignal", steps |-> steps,
     total_time |-> SumDurations(steps, Len(steps))]

RECURSIVE clone_box(_, _)
RECURSIVE sample(_, _, _)

\* ---- clone_box: [heap, id] with the copy appended to the heap ----------
Const_clone_box(h, id) == Alloc(h, h[id])

Sine_clone_box(h, id) ==
    LET f == clone_box(h, h[id].freq)
    IN  Alloc(f.heap, Sine_new(f.id))

Gain_clone_box(h, id) ==
    LET s == clone_box(h, h[id].signal)
    IN  Alloc(s.heap, [kind |-> "Gain", signal |-> s.id, gain |-> h[id].gain])

Sum_clone_shared(h, id) == Alloc(h, h[id])

Sum_clone_box(h, id) ==
    LET a == clone_box(h, h[id].a)
        b == clone_box(a.heap, h[id].b)
    IN  Alloc(b.heap, Sum_new(a.id, b.id))

Adsr_clone_box(h, id) ==
    LET g == clone_box(h, h[id].gate)
        i == clone_box(g.heap, h[id].input)
    IN  Alloc(i.heap, Adsr_new(g.id, i.id))

Sample_clone_box(h, id) ==
    LET g == clone_box(h, h[id].gate)
    IN  Alloc(g.heap, [kind |-> "Sample", gate |-> g.id,
                       samples |-> h[id].samples, index |-> 0])

Every_clone_box(h, id) == Alloc(h, h[id])

\* the steps n+1.. of `steps` cloned in order after the clones in `done`
RECURSIVE CloneSteps(_, _, _)
CloneSteps(h, steps, done) ==
    IF Len(done) = Len(steps) THEN [heap |-> h, steps |-> done]
    ELSE LET st == steps[Len(done) + 1]
             c  == clone_box(h, st[1])
         IN  CloneSteps(c.heap, steps, Append(done, <<c.id, st[2]>>))

StepSignal_clone_box(h, id) ==
    LET cloned_steps == CloneSteps(h, h[id].steps, <<>>)
    IN  Alloc(cloned_steps.heap, StepSignal_new(cloned_steps.steps))

clone_box(h, id) ==
    CASE h[id].kind = "Const"      -> Const_clone_box(h, id)
      [] h[id].kind = "Sine"       -> Sine_clone_box(h, id)
      [] h[id].kind = "Gain"       -> Gain_clone_box(h, id)
      [] h[id].kind = "Sum"        -> Sum_clone_box(h, id)
      [] h[id].kind = "Adsr"       -> Adsr_clone_box(h, id)
      [] h[id].kind = "Sample"     -> Sample_clone_box(h, id)
      [] h[id].kind = "Every"      -> Every_clone_box(h, id)
      [] h[id].kind = "StepSignal" -> StepSignal_clone_box(h, id)

\* ---- sample: [out, heap, calls]; calls lists the <<node, t>> of every ---
\* ---- sample call made below this one, in call order ---------------------
Const_sample(h, id, t) == [out |-> h[id].value, heap |-> h, calls |-> <<>>]

\* Sine::sample without the wrap-around of the phase
Sine_sample_unwrapped(h, id, t) ==
    LET self  == h[id]
        out   == F32Cos(self.state)
        f     == sample(h, self.freq, t)
        state == F32Add(self.state, F32Mul(F32Mul(TAU, SAMPLE_PERIOD), f.out))
    IN  [out |-> out, heap |-> [f.heap EXCEPT ![id].state = state],
         calls |-> f.calls]

\* Sine::sample advancing the phase before taking the cosine
Sine_sample_advanced(h, id, t) ==
    LET self  == h[id]
        f     == sample(h, self.freq, t)
        state == F32Rem(F32Add(self.state,
                               F32Mul(F32Mul(TAU, SAMPLE_PERIOD), f.out)), TAU)
    IN  [out |-> F32Cos(state), heap |-> [f.heap EXCEPT ![id].state = state],
         calls |-> f.calls]

Sine_sample(h, id, t) ==
    LET self  == h[id]
        out   == F32Cos(self.state)
        f     == sample(h, self.freq, t)
        state == F32Rem(F32Add(self.state,
                               F32Mul(F32Mul(TAU, SAMPLE_PERIOD), f.out)), TAU)
    IN  [out |-> out, heap |-> [f.heap EXCEPT ![id].state = state],
         calls |-> f.calls]

Gain_sample(h, id, t) ==
    LET s == sample(h, h[id].signal, t)
    IN  [out |-> F32Mul(s.out, h[id].gain), heap |-> s.heap, calls |-> s.calls]

\* Sum::sample sampling a twice instead of a and b
Sum_sample_twice(h, id, t) ==
    LET a == sample(h, h[id].a, t)
        b == sample(a.heap, h[id].a, t)
    IN  [out |-> F32Add(a.out, b.out), heap |-> b.heap,
         calls |-> a.calls \o b.calls]

Sum_sample(h, id, t) ==
    LET a == sample(h, h[id].a, t)
        b == sample(a.heap, h[id].b, t)
    IN  [out |-> F32Add(a.out, b.out), heap |-> b.heap,
         calls |-> a.calls \o b.calls]

\* the gate edge without the falling edge
AdsrEdgeNoRelease(self, gate) ==
    IF ~self.gate_last /\ gate
    THEN [self EXCEPT !.beg_value = self.value, !.state = "Attack",
                      !.gate_last = gate]
    ELSE [self EXCEPT !.gate_last = gate]

\* one step of the current stage with a Decay that keeps the value it
\* computed when it enters Sustain
AdsrStageUnclamped(self) ==
    CASE self.state = "Idle" -> [self EXCEPT !.beg_value = Zero]
      [] self.state = "Attack" ->
            LET step  == F32Div(self.peak_level,
                                F32Max(F32Mul(self.attack, SAMPLE_RATE), One))
                value == F32Add(self.value, step)
            IN  IF F32Ge(value, self.peak_level)
                THEN [self EXCEPT !.value = self.peak_level, !.state = "Decay"]
                ELSE [self EXCEPT !.value = value]
      [] self.state = "Decay" ->
            LET step  == F32Div(F32Sub(self.peak_level, self.sustain_level),
                                F32Max(F32Mul(self.decay, SAMPLE_RATE), One))
                value == F32Sub(self.value, step)
            IN  IF F32Le(value, self.sustain_level)
                THEN [self EXCEPT !.value = value, !.state = "Sustain"]
                ELSE [self EXCEPT !.value = value]
      [] self.state = "Sustain" -> self
      [] self.state = "Release" ->
            LET step  == F32Div(self.beg_value,
                                F32Max(F32Mul(self.release, SAMPLE_RATE), One))
                value == F32Sub(self.value, step)
            IN  IF F32Le(value, Zero)
                THEN [self EXCEPT !.value = Zero, !.state = "Idle"]
                ELSE [self EXCEPT !.value = value]

\* one step of the current stage with a release step taken from the current
\* value instead of the value at the falling edge
AdsrStageReleaseFromValue(self) ==
    CASE self.state = "Idle" -> [self EXCEPT !.beg_value = Zero]
      [] self.state = "Attack" ->
            LET step  == F32Div(self.peak_level,
                                F32Max(F32Mul(self.attack, SAMPLE_RATE), One))
                value == F32Add(self.value, step)
            IN  IF F32Ge(value, self.peak_level)
                THEN [self EXCEPT !.value = self.peak_level, !.state = "Decay"]
                ELSE [self EXCEPT !.value = value]
      [] self.state = "Decay" ->
            LET step  == F32Div(F32Sub(self.peak_level, self.sustain_level),
                                F32Max(F32Mul(self.decay, SAMPLE_RATE), One))
                value == F32Sub(self.value, step)
            IN  IF F32Le(value, self.sustain_level)
                THEN [self EXCEPT !.value = self.sustain_level,
                                  !.state = "Sustain"]
                ELSE [self EXCEPT !.value = value]
      [] self.state = "Sustain" -> [self EXCEPT !.value = self.sustain_level]
      [] self.state = "Release" ->
            LET step  == F32Div(self.value,
                                F32Max(F32Mul(self.release, SAMPLE_RATE), One))
                value == F32Sub(self.value, step)
            IN  IF F32Le(value, Zero)
                THEN [self EXCEPT !.value = Zero, !.state = "Idle"]
                ELSE [self EXCEPT !.value = value]

\* the gate edge with a rising edge that starts the ramp again from 0
AdsrEdgeRestart(self, gate) ==
    IF ~self.gate_last /\ gate
    THEN [self EXCEPT !.beg_value = self.value, !.value = Zero,
                      !.state = "Attack", !.gate_last = gate]
    ELSE IF self.gate_last /\ ~gate
    THEN [self EXCEPT !.beg_value = self.value, !.state = "Release",
                      !.gate_last = gate]
    ELSE [self EXCEPT !.gate_last = gate]

\* one step of the current stage with an Attack that never ends
AdsrStageNoPeak(self) ==
    CASE self.state = "Idle" -> [self EXCEPT !.beg_value = Zero]
      [] self.state = "Attack" ->
            LET step  == F32Div(self.peak_level,
                                F32Max(F32Mul(self.attack, SAMPLE_RATE), One))
            IN  [self EXCEPT !.value = F32Add(self.value, step)]
      [] self.state = "Decay" -> self
      [] self.state = "Sustain" -> [self EXCEPT !.value = self.sustain_level]
      [] self.state = "Release" ->
            LET step  == F32Div(self.beg_value,
                                F32Max(F32Mul(self.release, SAMPLE_RATE), One))
                value == F32Sub(self.value, step)
            IN  IF F32Le(value, Zero)
                THEN [self EXCEPT !.value = Zero, !.state = "Idle"]
                ELSE [self EXCEPT !.value = value]

\* the first match of Adsr::sample: the gate edge
AdsrEdge(self, gate) ==
    IF ~self.gate_last /\ gate
    THEN [self EXCEPT !.beg_value = self.value, !.state = "Attack",
                      !.gate_last = gate]
    ELSE IF self.gate_last /\ ~gate
    THEN [self EXCEPT !.beg_value = self.value, !.state = "Release",
                      !.gate_last = gate]
    ELSE [self EXCEPT !.gate_last = gate]

\* the second match of Adsr::sample: one step of the current stage
AdsrStage(self) ==
    CASE self.state = "Idle" -> [self EXCEPT !.beg_value = Zero]
      [] self.state = "Attack" ->
            LET step  == F32Div(self.peak_level,
                                F32Max(F32Mul(self.attack, SAMPLE_RATE), One))
                value == F32Add(self.value, step)
            IN  IF F32Ge(value, self.peak_level)
                THEN [self EXCEPT !.value = self.peak_level, !.state = "Decay"]
                ELSE [self EXCEPT !.value = value]
      [] self.state = "Decay" ->
            LET step  == F32Div(F32Sub(self.peak_level, self.sustain_level),
                                F32Max(F32Mul(self.decay, SAMPLE_RATE), One))
                value == F32Sub(self.value, step)
            IN  IF F32Le(value, self.sustain_level)
                THEN [self EXCEPT !.value = self.sustain_level,
                                  !.state = "Sustain"]
                ELSE [self EXCEPT !.value = value]
      [] self.state = "Sustain" -> [self EXCEPT !.value = self.sustain_level]
      [] self.state = "Release" ->
            LET step  == F32Div(self.beg_value,
                                F32Max(F32Mul(self.release, SAMPLE_RATE), One))
                value == F32Sub(self.value, step)
            IN  IF F32Le(value, Zero)
                THEN [self EXCEPT !.value = Zero, !.state = "Idle"]
                ELSE [self EXCEPT !.value = value]

\* the end of Adsr::sample: self is the envelope after the two matches, g
\* the result of sampling the gate
AdsrOutput(id, t, g, self) ==
    LET input == sample([g.heap EXCEPT ![id] = self], self.input, t)
    IN  [out |-> F32Mul(self.value, input.out), heap |-> input.heap,
         calls |-> g.calls \o input.calls]

AdsrGated(h, id, t, g) ==
    AdsrOutput(id, t, g, AdsrStage(AdsrEdge(h[id], F32Gt(g.out, Zero))))

Adsr_sample(h, id, t) == AdsrGated(h, id, t, sample(h, h[id].gate, t))

\* Sample::sample keeping the cursor when the gate is low
Sample_sample_no_reset(h, id, t) ==
    LET g    == sample(h, h[id].gate, t)
        self == h[id]
    IN  IF F32Le(g.out, Zero)
        THEN [out |-> Zero, heap |-> g.heap, calls |-> g.calls]
        ELSE IF self.index < Len(self.samples)
        THEN [out |-> self.samples[self.index + 1],
              heap |-> [g.heap EXCEPT ![id].index = self.index + 1],
              calls |-> g.calls]
        ELSE [out |-> Zero, heap |-> g.heap, calls |-> g.calls]

Sample_sample(h, id, t) ==
    LET g    == sample(h, h[id].gate, t)
        self == h[id]
    IN  IF F32Le(g.out, Zero)
        THEN [out |-> Zero, heap |-> [g.heap EXCEPT ![id].index = 0],
              calls |-> g.calls]
        ELSE IF self.index < Len(self.samples)
        THEN [out |-> self.samples[self.index + 1],
              heap |-> [g.heap EXCEPT ![id].index = self.index + 1],
              calls |-> g.calls]
        ELSE [out |-> Zero, heap |-> g.heap, calls |-> g.calls]

Every_sample(h, id, t) ==
    [out |-> IF F32Lt(F32Rem(t, h[id].period), h[id].duration)
             THEN One ELSE Zero,
     heap |-> h, calls |-> <<>>]

\* StepWalk putting every oscillator back to phase 0 when it enters a step
RECURSIVE StepWalkResetting(_, _, _, _, _)
StepWalkResetting(h, steps, i, t, accumulated_time) ==
    IF i > Len(steps) THEN [out |-> Zero, heap |-> h, calls |-> <<>>]
    ELSE IF F32Lt(t, F32Add(accumulated_time, steps[i][2]))
    THEN sample([n \in DOMAIN h |->
                    IF h[n].kind = "Sine" THEN [h[n] EXCEPT !.state = Zero]
                    ELSE h[n]],
                steps[i][1], F32Sub(t, accumulated_time))
    ELSE StepWalkResetting(h, steps, i + 1, t,
                           F32Add(accumulated_time, steps[i][2]))

\* StepWalk passing the wrapped time itself to the selected sub-signal
RECURSIVE StepWalkUnshifted(_, _, _, _, _)
StepWalkUnshifted(h, steps, i, t, accumulated_time) ==
    IF i > Len(steps) THEN [out |-> Zero, heap |-> h, calls |-> <<>>]
    ELSE IF F32Lt(t, F32Add(accumulated_time, steps[i][2]))
    THEN sample(h, steps[i][1], t)
    ELSE StepWalkUnshifted(h, steps, i + 1, t,
                           F32Add(accumulated_time, steps[i][2]))

\* StepWalk falling back to the last step when no step is selected
RECURSIVE StepWalkClamped(_, _, _, _, _)
StepWalkClamped(h, steps, i, t, accumulated_time) ==
    IF i > Len(steps) THEN [out |-> Zero, heap |-> h, calls |-> <<>>]
    ELSE IF F32Lt(t, F32Add(accumulated_time, steps[i][2])) \/ i = Len(steps)
    THEN sample(h, steps[i][1], F32Sub(t, accumulated_time))
    ELSE StepWalkClamped(h, steps, i + 1, t,
                         F32Add(accumulated_time, steps[i][2]))

\* the for loop of StepSignal::sample from step i on
RECURSIVE StepWalk(_, _, _, _, _)
StepWalk(h, steps, i, t, accumulated_time) ==
    IF i > Len(steps) THEN [out |-> Zero, heap |-> h, calls |-> <<>>]
    ELSE IF F32Lt(t, F32Add(accumulated_time, steps[i][2]))
    THEN sample(h, steps[i][1], F32Sub(t, accumulated_time))
    ELSE StepWalk(h, steps, i + 1, t, F32Add(accumulated_time, steps[i][2]))

\* StepSignal::sample without the wrap-around of t
StepSignal_sample_unwrapped(h, id, t) == StepWalk(h, h[id].steps, 1, t, Zero)

StepSignal_sample(h, id, t) ==
    StepWalk(h, h[id].steps, 1, F32Rem(t, h[id].total_time), Zero)

Called(id, t, r) == [r EXCEPT !.calls = <<<<id, t>>>> \o r.calls]

sample(h, id, t) ==
    Called(id, t,
           CASE h[id].kind = "Const"      -> Const_sample(h, id, t)
             [] h[id].kind = "Sine"       -> Sine_sample(h, id, t)
             [] h[id].kind = "Gain"       -> Gain_sample(h, id, t)
             [] h[id].kind = "Sum"        -> Sum_sample(h, id, t)
             [] h[id].kind = "Adsr"       -> Adsr_sample(h, id, t)
             [] h[id].kind = "Sample"     -> Sample_sample(h, id, t)
             [] h[id].kind = "Every"      -> Every_sample(h, id, t)
             [] h[id].kind = "StepSignal" -> StepSignal_sample(h, id, t))

(***************************************************************************)
(* Shared state.  heap: the Box cells; roots: the signals the caller       *)
(* holds; last: the last call made (operation, t, returned amplitude and   *)
(* the sample calls it made); hist: the calls so far; frame: the number of *)
(* calls or frames so far; melody: the melody builder's input and output.  *)
(***************************************************************************)
Children(node) ==
    CASE node.kind = "Sine"       -> {node.freq}
      [] node.kind = "Gain"       -> {node.signal}
      [] node.kind = "Sum"        -> {node.a, node.b}
      [] node.kind = "Adsr"       -> {node.gate, node.input}
      [] node.kind = "Sample"     -> {node.gate}
      [] node.kind = "StepSignal" -> {node.steps[i][1] : i \in DOMAIN node.steps}
      [] OTHER                    -> {}

RECURSIVE Reach(_, _)
Reach(h, id) == {id} \cup UNION {Reach(h, c) : c \in Children(h[id])}

\* the state of the graph owned by the node id
SubState(h, id) == [n \in Reach(h, id) |-> h[n]]

NoCall == [op |-> "none"]

(***************************************************************************)
(* Spec: a caller holds a signal A, samples it, duplicates it once into B  *)
(* and samples A and B at times of its choice.                             *)
(***************************************************************************)
MaxPre == 2

MaxPost == 2

DupTimes == {F32(1, 4), F32(3, 4)}

GraphConst == Alloc(<<>>, Const_new(F32(1, 2)))

GraphEvery == Alloc(<<>>, Every_new(One, F32(1, 2)))

GraphSine ==
    LET f == Alloc(<<>>, Const_new(F32FromInt(11025)))
    IN  Alloc(f.heap, Sine_new(f.id))

GraphGain ==
    LET s == GraphSine
    IN  Alloc(s.heap, Gain_new(s.id, F32(1, 2)))

GraphSum ==
    LET a == GraphSine
        b == Alloc(a.heap, Every_new(One, F32(1, 2)))
    IN  Alloc(b.heap, Sum_new(a.id, b.id))

GraphAdsr ==
    LET g == GraphEvery
        i == Alloc(g.heap, Const_new(One))
    IN  Alloc(i.heap, Adsr_new(g.id, i.id))

GraphSample ==
    LET g == GraphEvery
    IN  Alloc(g.heap, Sample_new(<<F32(1, 4), F32(1, 2), F32(3, 4)>>, g.id))

GraphStep ==
    LET a == GraphSine
        b == Alloc(a.heap, Every_new(F32(1, 2), F32(1, 4)))
    IN  Alloc(b.heap, StepSignal_new(<<<<a.id, F32(1, 2)>>, <<b.id, F32(1, 2)>>>>))

DupGraphs ==
    {GraphConst, GraphEvery, GraphSine, GraphGain, GraphSum, GraphAdsr,
     GraphSample, GraphStep}

DupInit ==
    /\ \E g \in DupGraphs : heap = g.heap /\ roots = <<g.id, 0>>
    /\ last = NoCall
    /\ hist = [pre |-> <<>>, a |-> <<>>, b |-> <<>>]
    /\ frame = 0
    /\ melody = <<>>

Sampled(who, t, r) ==
    /\ heap' = r.heap
    /\ last' = [op |-> "sample", who |-> who, t |-> t, out |-> r.out,
                calls |-> r.calls]
    /\ hist' = IF roots[2] = 0
               THEN [hist EXCEPT !.pre = Append(@, <<t, r.out>>)]
               ELSE IF who = 1
               THEN [hist EXCEPT !.a = Append(@, <<t, r.out>>)]
               ELSE [hist EXCEPT !.b = Append(@, <<t, r.out>>)]

\* root.sample(t) on the original (who = 1) or on the duplicate (who = 2)
SampleRoot(who, t) ==
    /\ roots[who] # 0
    /\ IF roots[2] = 0 THEN Len(hist.pre) < MaxPre
       ELSE IF who = 1 THEN Len(hist.a) < MaxPost ELSE Len(hist.b) < MaxPost
    /\ Sampled(who, t, sample(heap, roots[who], t))
    /\ UNCHANGED <<roots, frame, melody>>

Duplicated(c) == heap' = c.heap /\ roots' = <<roots[1], c.id>>

\* let b = a.clone_box()
Duplicate ==
    /\ roots[2] = 0
    /\ Duplicated(clone_box(heap, roots[1]))
    /\ last' = [op |-> "clone_box"]
    /\ UNCHANGED <<hist, frame, melody>>

DupNext ==
    \/ \E who \in {1, 2} : \E t \in DupTimes : SampleRoot(who, t)
    \/ Duplicate

Spec == DupInit /\ [][DupNext]_vars

Times(calls) == [i \in DOMAIN calls |-> calls[i][1]]

\* C1: a duplicate driven with the same t values as the original after the
\* duplication returns the same amplitudes as the original: it continues
\* from the original's state at duplication time.
C1_DuplicateSnapshotsState ==
    (roots[2] # 0 /\ Times(hist.a) = Times(hist.b)) => hist.a = hist.b

\* C2: after b = a.clone_box() a sample call on either of the two leaves the
\* state of every node of the other one unchanged, and the two own no node
\* in common.
C2_DuplicateIndependent ==
    [][(roots[2] # 0 /\ roots' = roots /\ last'.op = "sample")
        => LET other == IF last'.who = 1 THEN 2 ELSE 1
           IN  /\ SubState(heap', roots[other]) = SubState(heap, roots[other])
               /\ Reach(heap', roots[1]) \cap Reach(heap', roots[2]) = {}]_vars

\* the original's envelope has been sampled into Attack after the
\* duplication while the duplicate's is still Idle
C2_Witness ==
    /\ roots[2] # 0
    /\ last.op = "sample"
    /\ last.who = 1
    /\ Len(hist.b) = 0
    /\ heap[roots[1]].kind = "Adsr"
    /\ heap[roots[1]].state = "Attack"
    /\ heap[roots[2]].state = "Idle"

(***************************************************************************)
(* SpecStep: a caller holds one step sequencer over stateless and stateful *)
(* sub-signals and samples it at times of its choice; LoopProbe samples    *)
(* two fresh duplicates of it a whole number of loops apart.               *)
(***************************************************************************)
MaxSteps == 2

MaxCalls == 2

MaxLoops == 2

StepDurations == {F32(-1, 2), Zero, F32(1, 1), F32(2, 1)}

StepTimes == {Zero, F32(1, 2), F32(1, 1), F32(3, 2), F32(3, 1), F32(9, 2)}

\* the sub-signal of step i: a pulse train or an oscillator
StepChild(h, i) ==
    IF i % 2 = 1 THEN Alloc(h, Every_new(One, F32(1, 2)))
    ELSE Alloc(Alloc(h, Const_new(F32FromInt(11025))).heap, Sine_new(Len(h) + 1))

RECURSIVE BuildSteps(_, _, _)
BuildSteps(h, durs, steps) ==
    IF Len(steps) = Len(durs) THEN Alloc(h, StepSignal_new(steps))
    ELSE BuildSteps(StepChild(h, Len(steps) + 1).heap, durs,
                    Append(steps, <<StepChild(h, Len(steps) + 1).id,
                                    durs[Len(steps) + 1]>>))

StepInit ==
    /\ \E n \in 0..MaxSteps : \E durs \in [1..n -> StepDurations] :
          /\ heap = BuildSteps(<<>>, durs, <<>>).heap
          /\ roots = <<Len(heap), 0>>
    /\ last = NoCall
    /\ hist = <<>>
    /\ frame = 0
    /\ melody = <<>>

StepSampled(t, r) ==
    /\ heap' = r.heap
    /\ last' = [op |-> "sample", who |-> 1, t |-> t, out |-> r.out,
                calls |-> r.calls, before |-> heap]

\* root.sample(t)
StepSample(t) ==
    /\ frame < MaxCalls
    /\ StepSampled(t, sample(heap, roots[1], t))
    /\ frame' = frame + 1
    /\ UNCHANGED <<roots, hist, melody>>

\* the step (0: none) of the sequencer `id` that a sample call with the call
\* list `calls` sampled, and the time it passed to it
SegmentOf(h, id, calls) ==
    IF Len(calls) < 2 THEN 0
    ELSE CHOOSE i \in DOMAIN h[id].steps : h[id].steps[i][1] = calls[2][1]

LocalOf(calls) == IF Len(calls) < 2 THEN Zero ELSE calls[2][2]

Probed(t, k, u, a, b, r1, r2) ==
    last' = [op |-> "loop", t |-> t, k |-> k, u |-> u,
             out1 |-> r1.out, out2 |-> r2.out,
             seg1 |-> SegmentOf(r1.heap, a, r1.calls),
             seg2 |-> SegmentOf(r2.heap, b, r2.calls),
             local1 |-> LocalOf(r1.calls), local2 |-> LocalOf(r2.calls)]

ProbeClones(t, k, u, a, b) ==
    Probed(t, k, u, a.id, b.id, sample(b.heap, a.id, t), sample(b.heap, b.id, u))

\* root.clone_box().sample(t) and root.clone_box().sample(t + k * total_time);
\* both duplicates are dropped afterwards
LoopProbe(t, k) ==
    /\ frame < MaxCalls
    /\ ProbeClones(t, k,
                   F32Add(t, F32Mul(F32FromInt(k), heap[roots[1]].total_time)),
                   clone_box(heap, roots[1]),
                   clone_box(clone_box(heap, roots[1]).heap, roots[1]))
    /\ frame' = frame + 1
    /\ UNCHANGED <<heap, roots, hist, melody>>

StepNext ==
    \/ \E t \in StepTimes : StepSample(t)
    \/ \E t \in StepTimes : \E k \in 0..MaxLoops : LoopProbe(t, k)

SpecStep == StepInit /\ [][StepNext]_vars

\* the cumulative end of step k: the sum of the durations of steps 1..k
CumEnd(steps, k) == SumDurations(steps, k)

\* the first step whose cumulative end is strictly greater than tp; 0 if none
FirstAbove(steps, tp) ==
    IF \E k \in DOMAIN steps : F32Lt(tp, CumEnd(steps, k))
    THEN CHOOSE k \in DOMAIN steps :
            /\ F32Lt(tp, CumEnd(steps, k))
            /\ \A j \in 1..(k - 1) : ~F32Lt(tp, CumEnd(steps, j))
    ELSE 0

Wrapped(h, id, t) == F32Rem(t, h[id].total_time)

\* C5: a sample call on the step sequencer at t is the sample call on the
\* first step whose cumulative end is strictly greater than t' = t % total_time
\* (a t' on a boundary belongs to the later step), made at the local time
\* t' minus the durations of the steps before it: same result, same effect
\* on the heap, and that one call below the root's.
C5_StepLocalTime ==
    (last.op = "sample"
     /\ FirstAbove(heap[roots[1]].steps, Wrapped(heap, roots[1], last.t)) # 0)
        => LET steps == heap[roots[1]].steps
               tp    == Wrapped(heap, roots[1], last.t)
               k     == FirstAbove(steps, tp)
               r     == sample(last.before, steps[k][1],
                               F32Sub(tp, CumEnd(steps, k - 1)))
           IN  /\ last.out = r.out
               /\ heap = r.heap
               /\ last.calls = <<<<roots[1], last.t>>>> \o r.calls

\* [(A, 1.0), (B, 2.0)] sampled at 1.5 has sampled B at 0.5
C5_Witness ==
    /\ last.op = "sample"
    /\ last.t = F32(3, 2)
    /\ Len(heap[roots[1]].steps) = 2
    /\ heap[roots[1]].steps[1][2] = F32(1, 1)
    /\ heap[roots[1]].steps[2][2] = F32(2, 1)
    /\ last.calls[2] = <<heap[roots[1]].steps[2][1], F32(1, 2)>>

C10_StepSilence ==
    (last.op = "sample"
     /\ FirstAbove(heap[roots[1]].steps, Wrapped(heap, roots[1], last.t)) = 0)
        => /\ last.out = Zero
           /\ last.calls = <<<<roots[1], last.t>>>>

\* a non-empty sequence with a non-zero total and a wrapped time that is not
\* below the last cumulative end
C10_Witness ==
    /\ last.op = "sample"
    /\ Len(heap[roots[1]].steps) > 0
    /\ heap[roots[1]].total_time # Zero
    /\ ~IsNaN(Wrapped(heap, roots[1], last.t))
    /\ FirstAbove(heap[roots[1]].steps, Wrapped(heap, roots[1], last.t)) = 0
    /\ last.out = Zero

(***************************************************************************)
(* SpecPlayer: a recorded-sample player over a gate that is 0.5 in the     *)
(* first second of every three, -1.0 in the second and 0.0 in the third,   *)
(* sampled at times of the caller's choice.  hist counts the consecutive   *)
(* calls with a gate above 0 and the calls that reset the cursor.          *)
(***************************************************************************)
MaxRecording == 3

MaxPlays == 5

PlayerTimes == {F32(1, 2), F32(3, 2), F32(5, 2)}

\* a recording of n amplitudes 1/8, 2/8, ...
Recording(n) == [i \in 1..n |-> F32(i, 8)]

PlayerGraph(n) ==
    [heap |-> <<Const_new(F32(1, 2)), Const_new(F32(-1, 1)), Const_new(Zero),
                StepSignal_new(<<<<1, One>>, <<2, One>>, <<3, One>>>>),
                Sample_new(Recording(n), 4)>>,
     id |-> 5]

PlayerInit ==
    /\ \E n \in 0..MaxRecording :
          heap = PlayerGraph(n).heap /\ roots = <<PlayerGraph(n).id, 0>>
    /\ last = NoCall
    /\ hist = [run |-> 0, resets |-> 0]
    /\ frame = 0
    /\ melody = <<>>

PlayerSampled(t, high, r) ==
    /\ heap' = r.heap
    /\ last' = [op |-> "sample", who |-> 1, t |-> t, out |-> r.out,
                calls |-> r.calls]
    /\ hist' = IF high THEN [hist EXCEPT !.run = @ + 1]
               ELSE [run |-> 0, resets |-> hist.resets + 1]

\* player.sample(t)
PlayerSample(t) ==
    /\ frame < MaxPlays
    /\ PlayerSampled(t, F32Gt(sample(heap, heap[roots[1]].gate, t).out, Zero),
                     sample(heap, roots[1], t))
    /\ frame' = frame + 1
    /\ UNCHANGED <<roots, melody>>

PlayerNext == \E t \in PlayerTimes : PlayerSample(t)

SpecPlayer == PlayerInit /\ [][PlayerNext]_vars

\* C9: on the k-th consecutive call with gate > 0 the player returns element
\* k-1 of the recording while k <= L and 0.0 afterwards; it returns 0.0 on a
\* call with gate <= 0, which puts the cursor back to 0; the cursor stays
\* within 0..L.
C9_PlayerCursor ==
    LET self == heap[roots[1]]
        L    == Len(self.samples)
    IN  /\ self.index \in 0..L
        /\ self.index = IF hist.run <= L THEN hist.run ELSE L
        /\ last.op = "sample"
              => last.out = IF hist.run = 0 \/ hist.run > L THEN Zero
                            ELSE self.samples[hist.run]

\* after a reset the recording has been replayed from its first element past
\* its end
C9_Witness ==
    /\ last.op = "sample"
    /\ hist.resets >= 1
    /\ Len(heap[roots[1]].samples) = 2
    /\ hist.run = 3
    /\ heap[roots[1]].index = 2
    /\ last.out = Zero

(***************************************************************************)
(* The melody builder of main.rs: play_note and generate_melody.           *)
(***************************************************************************)
HARMONICS ==
    <<F32(700, 1000), F32(243, 1000), F32(229, 1000), F32(95, 1000),
      F32(139, 1000), F32(87, 1000), F32(288, 1000), F32(199, 1000),
      F32(124, 1000), F32(90, 1000)>>

\* one step of the fold of play_note: the Boxes of freq, sine and gain and
\* of the Sum of the accumulator and the gain
PlayHarmonic(h, acc, freq, vol) ==
    [heap |-> h \o <<Const_new(freq), Sine_new(Len(h) + 1),
                     Gain_new(Len(h) + 2, vol), Sum_new(acc, Len(h) + 3)>>,
     id |-> Len(h) + 4]

\* the fold from harmonic i (1-based; the code's index is i - 1) on
RECURSIVE PlayNoteFold(_, _, _, _)
PlayNoteFold(acc, base_freq, harmonics, i) ==
    IF i > Len(harmonics) THEN acc
    ELSE PlayNoteFold(PlayHarmonic(acc.heap, acc.id,
                                   F32Mul(base_freq,
                                          F32Add(F32FromInt(i - 1), One)),
                                   harmonics[i]),
                      base_freq, harmonics, i + 1)

play_note(h, base_freq, harmonics) ==
    PlayNoteFold(Alloc(h, Const_new(Zero)), base_freq, harmonics, 1)

\* the vector freqs after the loop over the notes
MelodyFreqsShortened(notes, multiplier, silence_period) ==
    [i \in DOMAIN notes |->
        <<notes[i][1], F32Mul(F32Sub(notes[i][2], silence_period), multiplier)>>]

MelodyFreqs(notes, multiplier, silence_period) ==
    [i \in DOMAIN notes |-> <<notes[i][1], F32Mul(notes[i][2], multiplier)>>]

\* the vector gates after the loop over the notes
MelodyGatesWholeNote(notes, multiplier, silence_period) ==
    [j \in 1..(2 * Len(notes)) |->
        IF j % 2 = 1
        THEN <<One, F32Mul(notes[(j + 1) \div 2][2], multiplier)>>
        ELSE <<Zero, F32Mul(silence_period, multiplier)>>]

MelodyGates(notes, multiplier, silence_period) ==
    [j \in 1..(2 * Len(notes)) |->
        IF j % 2 = 1
        THEN <<One, F32Mul(F32Sub(notes[(j + 1) \div 2][2], silence_period),
                           multiplier)>>
        ELSE <<Zero, F32Mul(silence_period, multiplier)>>]

\* freqs.into_iter().map(|(f, d)| (play_note(Const::new(f), &HARMONICS), d))
RECURSIVE FreqSteps(_, _, _)
FreqSteps(h, freqs, steps) ==
    IF Len(steps) = Len(freqs) THEN [heap |-> h, steps |-> steps]
    ELSE FreqSteps(play_note(h, freqs[Len(steps) + 1][1], HARMONICS).heap, freqs,
                   Append(steps, <<Len(h) + 1 + 4 * Len(HARMONICS),
                                   freqs[Len(steps) + 1][2]>>))

\* gates.into_iter().map(|(g, d)| (Box::new(Const::new(g)), d))
GateSteps(h, gates) ==
    [heap  |-> h \o [j \in DOMAIN gates |-> Const_new(gates[j][1])],
     steps |-> [j \in DOMAIN gates |-> <<Len(h) + j, gates[j][2]>>]]

BoxStepSignal(s) == Alloc(s.heap, StepSignal_new(s.steps))

\* the tuple returned, with the vectors freqs and gates it was built from
MelodySignals(freqs, gates, f) ==
    [freqs       |-> freqs,
     gates       |-> gates,
     heap        |-> BoxStepSignal(GateSteps(f.heap, gates)).heap,
     freq_signal |-> f.id,
     gate_signal |-> BoxStepSignal(GateSteps(f.heap, gates)).id]

MelodyVectors(h, freqs, gates) ==
    MelodySignals(freqs, gates, BoxStepSignal(FreqSteps(h, freqs, <<>>)))

MelodyLoop(h, notes, multiplier, silence_period) ==
    MelodyVectors(h, MelodyFreqs(notes, multiplier, silence_period),
                  MelodyGates(notes, multiplier, silence_period))

generate_melody(h, notes, bpm) ==
    MelodyLoop(h, notes, F32Div(F32FromInt(60), F32FromInt(bpm)), F32(2, 100))

(***************************************************************************)
(* SpecMelody: generate_melody called once on a melody of at most MaxNotes *)
(* notes.                                                                  *)
(***************************************************************************)
MaxNotes == 2

MelodyNotes ==
    {<<f, d>> : f \in {F32FromInt(440), F32(26163, 100)},
                d \in {F32(1, 100), F32(1, 2), One, F32(3, 2)}}

MelodyTempos == {60, 100, 120}

MelodyInit ==
    /\ heap = <<>>
    /\ roots = <<0, 0>>
    /\ last = NoCall
    /\ hist = <<>>
    /\ frame = 0
    /\ \E n \in 0..MaxNotes : \E notes \in [1..n -> MelodyNotes] :
          \E bpm \in MelodyTempos :
             melody = [notes |-> notes, bpm |-> bpm, freqs |-> <<>>,
                       gates |-> <<>>]

MelodyBuilt(m) ==
    /\ melody' = [melody EXCEPT !.freqs = m.freqs, !.gates = m.gates]
    /\ heap' = m.heap
    /\ roots' = <<m.freq_signal, m.gate_signal>>

\* let (freq_signal, gate_signal) = generate_melody(&notes, bpm)
GenerateMelody ==
    /\ last.op = "none"
    /\ MelodyBuilt(generate_melody(heap, melody.notes, melody.bpm))
    /\ last' = [op |-> "generate_melody"]
    /\ UNCHANGED <<hist, frame>>

MelodyNext == GenerateMelody

SpecMelody == MelodyInit /\ [][MelodyNext]_vars

\* ---- what the claims about the melody builder speak of ------------------
MelodyIsBuilt == last.op = "generate_melody"

SecondsPerBeat == F32Div(F32FromInt(60), F32FromInt(melody.bpm))

SilenceGap == F32(2, 100)

FreqSegments == heap[roots[1]].steps

GateSegments == heap[roots[2]].steps

\* the values of the Constants at the leaves of the signal id
LeafValues(id) ==
    {heap[n].value : n \in {m \in Reach(heap, id) : heap[m].kind = "Const"}}

HarmonicFreqs(f) ==
    {F32Mul(f, F32FromInt(k)) : k \in 1..Len(HARMONICS)} \cup {Zero}

\* C7: every note appends one segment to the frequency step sequence, and
\* the length of that segment is (duration - silenceGap) * secondsPerBeat,
\* the length of the note's gate-on segment.
C7_FreqSegmentIsGateOn ==
    MelodyIsBuilt =>
        /\ Len(FreqSegments) = Len(melody.notes)
        /\ \A i \in DOMAIN melody.notes :
              /\ FreqSegments[i][2]
                    = F32Mul(F32Sub(melody.notes[i][2], SilenceGap), SecondsPerBeat)
              /\ FreqSegments[i][2] = GateSegments[2 * i - 1][2]

\* C7 as the code has it: every note appends one segment to the frequency
\* step sequence, holding the harmonic stack of the note's frequency, and
\* the length of that segment is duration * secondsPerBeat, the whole note.
C7_FreqSegmentWholeNote ==
    MelodyIsBuilt =>
        /\ Len(FreqSegments) = Len(melody.notes)
        /\ \A i \in DOMAIN melody.notes :
              /\ FreqSegments[i][2] = F32Mul(melody.notes[i][2], SecondsPerBeat)
              /\ LeafValues(FreqSegments[i][1]) = HarmonicFreqs(melody.notes[i][1])

C7_Witness ==
    /\ MelodyIsBuilt
    /\ melody.bpm = 120
    /\ Len(melody.notes) = 2
    /\ melody.notes[1][2] = F32(3, 2)
    /\ melody.notes[2][2] = F32(1, 2)
    /\ FreqSegments[1][2] = F32(3, 4)
    /\ FreqSegments[2][2] = F32(1, 4)

\* C8: n notes give a gate step sequence of 2n segments in note order, for
\* note i a Constant 1.0 of length (duration_i - silenceGap) * (60 / bpm)
\* followed by a Constant 0.0 of length silenceGap * (60 / bpm); the melody
\* [(440, 1.0)] at 60 BPM gives [(1.0, 0.98), (0.0, 0.02)].
C8_GateSegments ==
    MelodyIsBuilt =>
        /\ Len(GateSegments) = 2 * Len(melody.notes)
        /\ \A i \in DOMAIN melody.notes :
              /\ heap[GateSegments[2 * i - 1][1]] = Const_new(One)
              /\ GateSegments[2 * i - 1][2]
                    = F32Mul(F32Sub(melody.notes[i][2], SilenceGap), SecondsPerBeat)
              /\ heap[GateSegments[2 * i][1]] = Const_new(Zero)
              /\ GateSegments[2 * i][2] = F32Mul(SilenceGap, SecondsPerBeat)
        /\ (melody.notes = <<<<F32FromInt(440), One>>>> /\ melody.bpm = 60)
              => /\ GateSegments[1][2] = F32(98, 100)
                 /\ GateSegments[2][2] = F32(2, 100)

C8_Witness ==
    /\ MelodyIsBuilt
    /\ melody.notes = <<<<F32FromInt(440), One>>>>
    /\ melody.bpm = 60
    /\ Len(GateSegments) = 2
    /\ melody.gates = <<<<One, F32(98, 100)>>, <<Zero, F32(2, 100)>>>>

(***************************************************************************)
(* SpecEnvelope: a fresh Adsr sampled once per frame, as the render loop   *)
(* of main.rs samples its graph, at t = i as f32 * SAMPLE_PERIOD.  Its     *)
(* gate is a StepSignal that is 1.0 for a number of frames and then 0.0    *)
(* for a number of frames; its input is the Const 1.0.  A run lasts at     *)
(* most MaxCycles periods of the gate and at most the 2 s of FullCycle.    *)
(***************************************************************************)
MaxCycles == 3

\* <<frames of gate high, frames of gate low>>: the full cycle; a fall in
\* Decay; a fall in Attack with a rise in Release; gates of a single frame;
\* a fall in Sustain with a low of a single frame; a fall at the peak with
\* a rise one release step below it; whole releases from Attack and Decay
EnvelopeGates ==
    {<<44100, 44100>>, <<4410, 441>>, <<220, 220>>, <<600, 100>>, <<1, 1>>,
     <<1, 600>>, <<14000, 1>>, <<441, 1>>, <<3, 600>>, <<442, 450>>}

FullCycle == <<44100, 44100>>

RunFrames(g) ==
    IF MaxCycles * (g[1] + g[2]) < FullCycle[1] + FullCycle[2]
    THEN MaxCycles * (g[1] + g[2]) ELSE FullCycle[1] + FullCycle[2]

GateSeconds(n) == F32Div(F32FromInt(n), SAMPLE_RATE)

EnvelopeGraph(g) ==
    [heap |-> <<Const_new(One), Const_new(Zero),
                StepSignal_new(<<<<1, GateSeconds(g[1])>>,
                                 <<2, GateSeconds(g[2])>>>>),
                Const_new(One), Adsr_new(3, 4)>>,
     id |-> 5]

EnvelopeInit ==
    /\ \E g \in EnvelopeGates :
          /\ heap = EnvelopeGraph(g).heap
          /\ roots = <<EnvelopeGraph(g).id, 0>>
          /\ hist = [gate |-> g, visited |-> <<>>, high |-> 0, low |-> 0]
    /\ last = NoCall
    /\ frame = 0
    /\ melody = <<>>

Visit(visited, state) ==
    IF visited # <<>> /\ visited[Len(visited)] = state THEN visited
    ELSE Append(visited, state)

EnvelopeSampled(t, r) ==
    /\ heap' = r.heap
    /\ last' = [op |-> "sample", who |-> 1, t |-> t, out |-> r.out,
                calls |-> r.calls, before |-> heap[roots[1]]]
    /\ hist' = [hist EXCEPT
                  !.visited = Visit(@, r.heap[roots[1]].state),
                  !.high = IF r.heap[roots[1]].gate_last THEN @ + 1 ELSE 0,
                  !.low = IF r.heap[roots[1]].gate_last THEN 0 ELSE @ + 1]

\* let t = i as f32 * SAMPLE_PERIOD; signal.sample(t)
EnvelopeSample ==
    /\ frame < RunFrames(hist.gate)
    /\ EnvelopeSampled(F32Mul(F32FromInt(frame), SAMPLE_PERIOD),
                       sample(heap, roots[1],
                              F32Mul(F32FromInt(frame), SAMPLE_PERIOD)))
    /\ frame' = frame + 1
    /\ UNCHANGED <<roots, melody>>

EnvelopeNext == EnvelopeSample

SpecEnvelope == EnvelopeInit /\ [][EnvelopeNext]_vars

\* ---- what the claims about the envelope speak of ------------------------
Envelope == heap[roots[1]]

FullCycleStages == <<"Attack", "Decay", "Sustain", "Release", "Idle">>

\* C3: a fresh envelope whose gate is high for 1.0 s of frames and then low
\* for 1.0 s of frames visits Attack, Decay, Sustain, Release, Idle in that
\* order, none skipped and none revisited, and after the 2 s of frames it is
\* in Idle with value 0.
C3_FullCycle ==
    (hist.gate = FullCycle /\ frame <= FullCycle[1] + FullCycle[2]) =>
        /\ hist.visited = SubSeq(FullCycleStages, 1, Len(hist.visited))
        /\ frame = FullCycle[1] + FullCycle[2] =>
              /\ hist.visited = FullCycleStages
              /\ Envelope.state = "Idle"
              /\ Envelope.value = Zero
              /\ last.out = Zero

C3_Witness ==
    /\ hist.gate = FullCycle
    /\ frame = FullCycle[1] + FullCycle[2]
    /\ hist.visited = FullCycleStages
    /\ Envelope.state = "Idle"
    /\ ~Envelope.gate_last

\* (attack + decay) * sampleRate, in the arithmetic of the code
AttackDecayCalls(self) == F32Mul(F32Add(self.attack, self.decay), SAMPLE_RATE)

\* the call just made found the envelope in Sustain and left its value
\* different from sustain_level
LeftSustain ==
    /\ last.op = "sample"
    /\ last.before.state = "Sustain"
    /\ Envelope.value # Envelope.sustain_level

\* C4: after more consecutive gate-high calls than (attack + decay) *
\* sampleRate the value is exactly sustain_level, and it stays sustain_level
\* over every further call but one on which the gate is sampled low.
C4_SustainAfterAttackDecay ==
    /\ F32Gt(F32FromInt(hist.high), AttackDecayCalls(Envelope))
          => Envelope.value = Envelope.sustain_level
    /\ LeftSustain => ~Envelope.gate_last

\* C4 as the code has it: the f32 steps of Attack and Decay take two calls
\* more than (attack + decay) * sampleRate; after at least that many
\* consecutive gate-high calls plus two the envelope is in Sustain with
\* value exactly sustain_level, and the value stays sustain_level over every
\* further call but one on which the gate is sampled low.
C4_SustainAfterTwoMoreCalls ==
    /\ F32Ge(F32FromInt(hist.high),
             F32Add(AttackDecayCalls(Envelope), F32FromInt(2)))
          => /\ Envelope.state = "Sustain"
             /\ Envelope.value = Envelope.sustain_level
             /\ last.out = Envelope.sustain_level
    /\ LeftSustain => ~Envelope.gate_last

C4_Witness ==
    /\ hist.gate = FullCycle
    /\ Envelope.gate_last
    /\ F32Ge(F32FromInt(hist.high),
             F32Add(AttackDecayCalls(Envelope), F32FromInt(2)))
    /\ hist.high = FullCycle[1]
    /\ Envelope.state = "Sustain"
    /\ Envelope.value = Envelope.sustain_level

(***************************************************************************)
(* SpecRender: the render loop of main over a buffer of at most MaxFrames  *)
(* frames.  The root is the graph main builds (the envelope over a melody, *)
(* summed with the kick) or a Gain over a fresh oscillator.  hist.audio is *)
(* the buffer: the amplitude handed to frame.pan for each frame.           *)
(***************************************************************************)
MaxFrames == 6

VOLUME == F32Div(F32FromInt(4), F32FromInt(10))

OscillatorFreqs ==
    {Zero, F32FromInt(440), F32(26163, 100), F32FromInt(11025),
     F32FromInt(22050)}

\* Gain { signal: Sine::new(Const::new(f)), gain: 0.5 }
RenderOscillator(f) ==
    [heap |-> <<Const_new(f), Sine_new(1), Gain_new(2, F32(1, 2))>>, id |-> 3]

RenderMelodies ==
    {<<>>, <<<<F32FromInt(440), One>>>>,
     <<<<F32(26163, 100), F32(1, 2)>>, <<F32FromInt(440), F32(3, 2)>>>>}

\* Sum::new(Box::new(Adsr::new(gate_signal, freq_signal)), kick.clone_box())
MainSum(adsr, kick) == Alloc(kick.heap, Sum_new(adsr, kick.id))

MainAdsr(h, m, kick) ==
    MainSum(Len(h) + 1,
            clone_box(Append(h, Adsr_new(m.gate_signal, m.freq_signal)), kick))

\* let kick = Gain { signal: Sample::new(.., Every { 0.5, 0.3 }), gain: 1.0 }
MainKick(m) ==
    MainAdsr(m.heap \o <<Every_new(F32(1, 2), F32(3, 10)),
                         Sample_new(Recording(MaxRecording), Len(m.heap) + 1),
                         Gain_new(Len(m.heap) + 2, One)>>,
             m, Len(m.heap) + 3)

RenderMain(notes, bpm) == MainKick(generate_melody(<<>>, notes, bpm))

RenderGraphs ==
    {RenderOscillator(f) : f \in OscillatorFreqs}
        \cup {RenderMain(notes, 120) : notes \in RenderMelodies}

\* Audio::with_silence(.., frameCount)
RenderInit ==
    /\ \E g \in RenderGraphs : heap = g.heap /\ roots = <<g.id, 0>>
    /\ \E n \in 0..MaxFrames :
          hist = [frameCount |-> n, audio |-> [j \in 1..n |-> Zero],
                  order |-> <<>>]
    /\ last = NoCall
    /\ frame = 0
    /\ melody = <<>>

Rendered(i, t, r) ==
    /\ heap' = r.heap
    /\ last' = [op |-> "frame", i |-> i, t |-> t, out |-> r.out,
                calls |-> r.calls, before |-> heap]
    /\ hist' = [hist EXCEPT !.audio[i + 1] = F32Mul(r.out, VOLUME),
                            !.order = Append(@, i)]

RenderAt(i, t) == Rendered(i, t, sample(heap, roots[1], t))

\* one iteration of for (i, frame) in audio.iter_mut().enumerate()
RenderFrame ==
    /\ frame < Len(hist.audio)
    /\ RenderAt(frame, F32Mul(F32FromInt(frame), SAMPLE_PERIOD))
    /\ frame' = frame + 1
    /\ UNCHANGED <<roots, melody>>

RenderNext == RenderFrame

SpecRender == RenderInit /\ [][RenderNext]_vars

\* no node occurs twice in a list of sample calls
SampledOnce(calls) ==
    \A a, b \in DOMAIN calls : calls[a][1] = calls[b][1] => a = b

\* C11: the render loop visits the frames 0, 1, ... in increasing order and
\* never more than frameCount of them; it samples the root once per frame
\* with t = i * samplePeriod, and no node of the graph is sampled twice in
\* one frame; the length of the buffer stays frameCount.
C11_RenderOncePerFrame ==
    /\ Len(hist.audio) = hist.frameCount
    /\ frame <= hist.frameCount
    /\ hist.order = [j \in 1..frame |-> j - 1]
    /\ last.op = "frame" =>
          /\ last.i = frame - 1
          /\ last.t = F32Mul(F32FromInt(last.i), SAMPLE_PERIOD)
          /\ last.calls[1] = <<roots[1], last.t>>
          /\ SampledOnce(last.calls)

\* the loop has ended on the graph of main with a melody of two notes
C11_Witness ==
    /\ hist.frameCount = MaxFrames
    /\ frame = hist.frameCount
    /\ heap[roots[1]].kind = "Sum"
    /\ Len(heap[heap[heap[roots[1]].a].gate].steps) = 4
    /\ Len(last.calls) > 20
    /\ last.i = MaxFrames - 1

\* the root is Gain(0.5) over an oscillator
RendersOscillator ==
    /\ heap[roots[1]].kind = "Gain"
    /\ heap[heap[roots[1]].signal].kind = "Sine"

\* C12: an oscillator outputs the cosine of the phase it held before the
\* call and advances the phase afterwards, so a fresh oscillator outputs
\* cos(0) = 1 whatever its frequency: every frame of Gain(0.5) over an
\* oscillator is 0.5 times the cosine of the phase before the frame, and
\* frame 0 is exactly 0.5.
C12_OscillatorFirstOutput ==
    (last.op = "frame" /\ RendersOscillator) =>
        /\ last.out = F32Mul(F32Cos(last.before[heap[roots[1]].signal].state),
                             heap[roots[1]].gain)
        /\ last.i = 0 =>
              /\ last.before[heap[roots[1]].signal].state = Zero
              /\ F32Cos(Zero) = One
              /\ last.out = F32(1, 2)

\* frame 0 of the 440 Hz oscillator is rendered and its phase has advanced
C12_Witness ==
    /\ last.op = "frame"
    /\ RendersOscillator
    /\ heap[heap[heap[roots[1]].signal].freq].value = F32FromInt(440)
    /\ last.i = 0
    /\ last.out = F32(1, 2)
    /\ heap[heap[roots[1]].signal].state # Zero

\* C13: after every sample call of the envelope, whatever the gate did
\* (rises during Release, falls during Attack or Decay, gates of one frame),
\* 0 <= value <= peak_level.
C13_ValueInRange ==
    /\ F32Ge(Envelope.value, Zero)
    /\ F32Le(Envelope.value, Envelope.peak_level)

\* gates of a single frame: a rise during Release, from a value above 0
C13_Witness ==
    /\ hist.gate = <<1, 1>>
    /\ last.op = "sample"
    /\ last.before.state = "Release"
    /\ F32Gt(last.before.value, Zero)
    /\ Envelope.state = "Attack"
    /\ F32Gt(Envelope.value, last.before.value)
    /\ F32Lt(Envelope.value, Envelope.peak_level)

\* the call just made read the gate high after a call that read it low
RisingEdge == last.op = "sample" /\ ~last.before.gate_last /\ Envelope.gate_last

\* the call just made read the gate low after a call that read it high
FallingEdge == last.op = "sample" /\ last.before.gate_last /\ ~Envelope.gate_last

\* peak_level / max(attack * SAMPLE_RATE, 1)
AttackStep(self) ==
    F32Div(self.peak_level, F32Max(F32Mul(self.attack, SAMPLE_RATE), One))

\* v / max(release * SAMPLE_RATE, 1)
ReleaseStep(self, v) ==
    F32Div(v, F32Max(F32Mul(self.release, SAMPLE_RATE), One))

\* C14: a call that reads the gate differently from the call before makes
\* the transition before its ramp step, whatever the state: on a rising edge
\* beg_value is the value before the call and the Attack step is applied to
\* that value, which gives min(v + attackStep, peak_level), never below v (the
\* envelope is in Attack, or in Decay when the step reached peak_level); on a
\* falling edge beg_value is the value before the call and the envelope is in
\* Release, one release step of v below v.
C14_EdgeKeepsValue ==
    /\ RisingEdge =>
          /\ Envelope.beg_value = last.before.value
          /\ F32Ge(Envelope.value, last.before.value)
          /\ IF F32Ge(F32Add(last.before.value, AttackStep(Envelope)),
                      Envelope.peak_level)
             THEN Envelope.value = Envelope.peak_level /\ Envelope.state = "Decay"
             ELSE /\ Envelope.value = F32Add(last.before.value, AttackStep(Envelope))
                  /\ Envelope.state = "Attack"
    /\ FallingEdge =>
          /\ Envelope.beg_value = last.before.value
          /\ Envelope.state = "Release"
          /\ Envelope.value =
                F32Sub(last.before.value, ReleaseStep(Envelope, last.before.value))

\* a rise during Release, from a value above sustain_level, back into Attack
C14_Witness ==
    /\ RisingEdge
    /\ last.before.state = "Release"
    /\ F32Gt(last.before.value, Envelope.sustain_level)
    /\ Envelope.state = "Attack"
    /\ Envelope.beg_value = last.before.value

\* max(release * SAMPLE_RATE, 1), the number of calls of a release
ReleaseCalls(self) == F32Max(F32Mul(self.release, SAMPLE_RATE), One)

\* the call just made read the gate low and found the envelope in the state
\* the call before left it in, or took a falling edge
GateStaysLow == last.op = "sample" /\ ~Envelope.gate_last

\* each call of a release takes v / max(release * sampleRate, 1) off the
\* value, v the value at the falling edge, and an envelope in Idle stays in
\* Idle with value 0 while the gate is low
ReleaseRamp ==
    /\ (GateStaysLow /\ Envelope.state = "Release") =>
          /\ Envelope.beg_value =
                IF FallingEdge THEN last.before.value ELSE last.before.beg_value
          /\ Envelope.value =
                F32Sub(last.before.value, ReleaseStep(Envelope, Envelope.beg_value))
    /\ (GateStaysLow /\ last.before.state = "Idle") =>
          Envelope.state = "Idle" /\ Envelope.value = Zero

\* C15: after a falling edge at any value v, from Attack, Decay or Sustain,
\* with the gate staying low, the envelope is in Idle with value exactly 0
\* once ceil(max(release * sampleRate, 1)) calls have read the gate low, the
\* falling-edge call included; each call of the release takes v / max(release
\* * sampleRate, 1) off the value, and Idle then holds value 0 while the gate
\* is low.
C15_ReleaseReachesIdle ==
    /\ (~Envelope.gate_last
          /\ F32Ge(F32FromInt(hist.low), ReleaseCalls(Envelope))) =>
          Envelope.state = "Idle" /\ Envelope.value = Zero
    /\ ReleaseRamp

\* C15 as the code has it: the f32 steps of a release can leave a value
\* above 0 after ceil(max(release * sampleRate, 1)) calls, and the envelope
\* is in Idle with value exactly 0 once one call more than that has read the
\* gate low, the falling-edge call included; each call of the release takes
\* v / max(release * sampleRate, 1) off the value, and Idle then holds value
\* 0 while the gate is low.
C15_ReleaseReachesIdleOneCallLater ==
    /\ (~Envelope.gate_last
          /\ F32Ge(F32FromInt(hist.low),
                   F32Add(ReleaseCalls(Envelope), One))) =>
          Envelope.state = "Idle" /\ Envelope.value = Zero
    /\ ReleaseRamp

\* a release from Decay that reaches Idle on the call after the
\* ceil(max(release * sampleRate, 1))-th
C15_Witness ==
    /\ GateStaysLow
    /\ hist.visited = <<"Attack", "Decay", "Release", "Idle">>
    /\ F32Ge(F32FromInt(hist.low), F32Add(ReleaseCalls(Envelope), One))
    /\ last.before.state = "Release"
    /\ Envelope.state = "Idle"
    /\ Envelope.value = Zero

\* what the stage says about the gate and the value, beg_value apart
StageAgrees(self) ==
    /\ self.gate_last => self.state \in {"Attack", "Decay", "Sustain"}
    /\ ~self.gate_last => self.state \in {"Release", "Idle"}
    /\ self.state = "Idle" => self.value = Zero
    /\ self.state = "Sustain" => self.value = self.sustain_level
    /\ self.state = "Decay" =>
          /\ F32Lt(self.sustain_level, self.value)
          /\ F32Le(self.value, self.peak_level)

\* C19: after every sample call of the envelope, gate_last high implies
\* Attack, Decay or Sustain, gate_last low implies Release or Idle, Idle
\* implies value = 0 and beg_value = 0, Sustain implies value = sustain_level
\* and Decay implies sustain_level < value <= peak_level.
C19_StageAgrees ==
    last.op = "sample" =>
        /\ StageAgrees(Envelope)
        /\ Envelope.state = "Idle" => Envelope.beg_value = Zero

\* C19 as the code has it: the same, but in Idle beg_value is 0 only after
\* a call that found the envelope in Idle; after the call that ends a
\* release, beg_value is still the value at the falling edge.
C19_StageAgreesIdleEntered ==
    last.op = "sample" =>
        /\ StageAgrees(Envelope)
        /\ Envelope.state = "Idle" =>
              Envelope.beg_value =
                 IF last.before.state = "Idle" THEN Zero
                 ELSE last.before.beg_value

\* the call that ends a release: Idle, value 0, beg_value above 0
C19_Witness ==
    /\ last.op = "sample"
    /\ last.before.state = "Release"
    /\ Envelope.state = "Idle"
    /\ Envelope.value = Zero
    /\ F32Gt(Envelope.beg_value, Zero)
    /\ ~Envelope.gate_last

\* C16: for notes of positive beat duration, durations below the silence gap
\* included, every segment duration of the gate and of the frequency step
\* sequence is non-negative; the note-on segment is max((duration -
\* silenceGap) * secondsPerBeat, 0).
C16_SegmentsNonNegative ==
    (MelodyIsBuilt /\ \A i \in DOMAIN melody.notes : F32Gt(melody.notes[i][2], Zero))
        => /\ \A i \in DOMAIN FreqSegments : F32Ge(FreqSegments[i][2], Zero)
           /\ \A j \in DOMAIN GateSegments : F32Ge(GateSegments[j][2], Zero)
           /\ \A i \in DOMAIN melody.notes :
                 GateSegments[2 * i - 1][2]
                    = F32Max(F32Mul(F32Sub(melody.notes[i][2], SilenceGap),
                                    SecondsPerBeat), Zero)

Close(x, y, k) ==
    F32Le(F32Max(F32Sub(x, y), F32Sub(y, x)),
          F32Mul(F32Mul(F32FromInt(k), <<Pow2(23), -45>>),
                 F32Max(F32Max(x, F32Neg(x)), F32Max(y, F32Neg(y)))))

\* the length of the gate-on segment of note i plus that of its gate-off
\* segment
GateNote(i) == F32Add(GateSegments[2 * i - 1][2], GateSegments[2 * i][2])

Sines == {n \in DOMAIN heap : heap[n].kind = "Sine"}

\* the number of sample calls on the node id among calls
CountCalls(calls, id) == Cardinality({k \in DOMAIN calls : calls[k][1] = id})

\* C17: with frequency values that are not negative, the phase of every
\* oscillator is in [0, 2 pi) after every frame; a sample call on an
\* oscillator samples its frequency sub-signal exactly once and changes the
\* phase to (phase + 2 pi * samplePeriod * f) mod 2 pi, f the value of the
\* frequency sub-signal (a Const in every graph here); an oscillator that is
\* not sampled keeps its phase.
C17_OscillatorPhase ==
    last.op = "frame" =>
        \A n \in Sines :
            /\ F32Ge(heap[n].state, Zero)
            /\ F32Lt(heap[n].state, TAU)
            /\ F32Ge(heap[heap[n].freq].value, Zero)
            /\ CountCalls(last.calls, n) \in {0, 1}
            /\ CountCalls(last.calls, heap[n].freq) = CountCalls(last.calls, n)
            /\ heap[n].state =
                  IF CountCalls(last.calls, n) = 0 THEN last.before[n].state
                  ELSE F32Rem(F32Add(last.before[n].state,
                                     F32Mul(F32Mul(TAU, SAMPLE_PERIOD),
                                            heap[heap[n].freq].value)), TAU)

\* an oscillator of 11025 Hz after the call on which its phase wrapped
C17_Witness ==
    /\ last.op = "frame"
    /\ RendersOscillator
    /\ heap[heap[heap[roots[1]].signal].freq].value = F32FromInt(11025)
    /\ CountCalls(last.calls, heap[roots[1]].signal) = 1
    /\ F32Lt(heap[heap[roots[1]].signal].state,
             last.before[heap[roots[1]].signal].state)

\* the steps of the sequencer whose sub-signal is among the nodes sampled
SampledSteps(steps, calls) ==
    {i \in DOMAIN steps : CountCalls(calls, steps[i][1]) > 0}

\* C20: a sample call on the step sequencer samples the sub-signal of at
\* most one step, and at most once; it leaves the state of the sub-signals
\* of all other steps, the list of steps with its durations and total_time
\* as they were; an oscillator in a step is not reset when the step is left
\* or entered again: sampled, it returns the cosine of the phase it held
\* before the call.
C20_StepFrame ==
    last.op = "sample" =>
        /\ heap[roots[1]] = last.before[roots[1]]
        /\ DOMAIN heap = DOMAIN last.before
        /\ Cardinality(SampledSteps(heap[roots[1]].steps, last.calls)) <= 1
        /\ \A i \in DOMAIN heap[roots[1]].steps :
              /\ CountCalls(last.calls, heap[roots[1]].steps[i][1]) <= 1
              /\ i \notin SampledSteps(heap[roots[1]].steps, last.calls) =>
                    SubState(heap, heap[roots[1]].steps[i][1])
                       = SubState(last.before, heap[roots[1]].steps[i][1])
              /\ (i \in SampledSteps(heap[roots[1]].steps, last.calls)
                    /\ heap[heap[roots[1]].steps[i][1]].kind = "Sine") =>
                    last.out = F32Cos(last.before[heap[roots[1]].steps[i][1]].state)

\* the second call is on the first step and the oscillator of the second
\* step, sampled by the first call, still holds the phase that call left
C20_Witness ==
    /\ last.op = "sample"
    /\ frame = 2
    /\ Len(heap[roots[1]].steps) = 2
    /\ SampledSteps(heap[roots[1]].steps, last.calls) = {1}
    /\ heap[heap[roots[1]].steps[2][1]].kind = "Sine"
    /\ heap[heap[roots[1]].steps[2][1]].state # Zero
    /\ heap[heap[roots[1]].steps[2][1]] = last.before[heap[roots[1]].steps[2][1]]

====
